---- MODULE Spec2Model ----
(***************************************************************************)
(* Model of upstream-proxy/src/daemon/config.rs: the LOCALHOST_ANY lazy    *)
(* static, configure() and the NoDiscovery discovery provider, together    *)
(* with the engine that consumes them (signing, polling the discovery      *)
(* stream on a cooperative worker).                                        *)
(***************************************************************************)
EXTENDS Naturals, Sequences, FiniteSets

VARIABLES
    lazyCell,    \* LOCALHOST_ANY's lazy cell: None before the first deref, Some(addr) after
    observed,    \* the values derefs of LOCALHOST_ANY have returned, in order
    calls,       \* the configure calls made so far: arguments and what was returned
    ncalls,      \* number of configure calls made so far
    signCalls,   \* number of signing operations invoked on any signer
    lastSign,    \* outcome of the latest signing operation
    providers,   \* NoDiscovery instances: "absent", "owned" or "moved"
    cloneOf,     \* per instance: the instance it was cloned from, 0 if none
    streams,     \* per instance: the streams discover calls on it returned
    running,     \* what holds the engine's worker: 0 when idle, else the instance whose stream is being polled
    progress     \* per other engine task: parity of the steps it has taken

vars == <<lazyCell, observed, calls, ncalls, signCalls, lastSign,
          providers, cloneOf, streams, running, progress>>

configVars == <<calls, ncalls, signCalls, lastSign>>
lazyVars == <<lazyCell, observed>>
discoveryVars == <<providers, cloneOf, streams, running, progress>>

----------------------------------------------------------------------------
(* Bounds *)

MaxCalls == 2
MaxReads == 2
MaxSigns == 2
MaxProviders == 2
MaxPolls == 2

----------------------------------------------------------------------------
(* Values *)

None == << >>
Some(x) == <<x>>

SocketAddrV4(ip, port) == [family |-> "V4", ip |-> ip, port |-> port]
SocketAddrV6(ip, port) == [family |-> "V6", ip |-> ip, port |-> port]

\* an initialiser naming the unspecified address instead
LOCALHOST_ANY_Unspecified == SocketAddrV4(<<0, 0, 0, 0>>, 0)

\* lazy_static initialiser of LOCALHOST_ANY
LOCALHOST_ANY_init == SocketAddrV4(<<127, 0, 0, 1>>, 0)

\* listen addresses handed to configure
ListenAddrs ==
    { SocketAddrV4(<<127, 0, 0, 1>>, 0),
      SocketAddrV4(<<0, 0, 0, 0>>, 65535),
      SocketAddrV6(<<0, 0, 0, 0, 0, 0, 0, 1>>, 8776) }

\* paths::Paths values, opaque
PathsValues == {"paths_a", "paths_b"}

\* S: Signer values; fails says whether the signing operation returns S::Error
Signers == { [peer |-> "hyn1", fails |-> FALSE], [peer |-> "hyb2", fails |-> TRUE] }

\* the library's defaults, opaque
MembershipParamsDefault == "membership::Params::default"
NetworkDefault == "Network::default"
ReplicationConfigDefault == "replication::Config::default"
QuotaDefault == "Quota::default"
StorageDefault == "Storage::default"
DenyAll == "DenyAll"

----------------------------------------------------------------------------
(* configure *)

\* configure that picks the ephemeral port itself when asked for port 0
configure_ephemeral(paths, signer, listen_addr) ==
    [ signer |-> signer,
      protocol |->
        [ paths |-> paths,
          listen_addr |-> IF listen_addr.port = 0
                          THEN [listen_addr EXCEPT !.port = 49152 + ncalls]
                          ELSE listen_addr,
          advertised_addrs |-> None,
          membership |-> MembershipParamsDefault,
          network |-> NetworkDefault,
          replication |-> ReplicationConfigDefault,
          rate_limits |-> QuotaDefault,
          request_pull |-> DenyAll ],
      storage |-> StorageDefault ]

\* configure that joins a private network when bound to a V6 address
configure_network(paths, signer, listen_addr) ==
    [ signer |-> signer,
      protocol |->
        [ paths |-> paths,
          listen_addr |-> listen_addr,
          advertised_addrs |-> None,
          membership |-> MembershipParamsDefault,
          network |-> IF listen_addr.family = "V6" THEN "Network::Custom" ELSE NetworkDefault,
          replication |-> ReplicationConfigDefault,
          rate_limits |-> QuotaDefault,
          request_pull |-> DenyAll ],
      storage |-> StorageDefault ]

\* configure that advertises the listen address
configure_advertising(paths, signer, listen_addr) ==
    [ signer |-> signer,
      protocol |->
        [ paths |-> paths,
          listen_addr |-> listen_addr,
          advertised_addrs |-> Some(<<listen_addr>>),
          membership |-> MembershipParamsDefault,
          network |-> NetworkDefault,
          replication |-> ReplicationConfigDefault,
          rate_limits |-> QuotaDefault,
          request_pull |-> DenyAll ],
      storage |-> StorageDefault ]

configure(paths, signer, listen_addr) ==
    [ signer |-> signer,
      protocol |->
        [ paths |-> paths,
          listen_addr |-> listen_addr,
          advertised_addrs |-> None,
          membership |-> MembershipParamsDefault,
          network |-> NetworkDefault,
          replication |-> ReplicationConfigDefault,
          rate_limits |-> QuotaDefault,
          request_pull |-> DenyAll ],
      storage |-> StorageDefault ]

\* the record of one call: the arguments and Some(returned value)
CallRecord(paths, signer, listen_addr, ret) ==
    [ paths |-> paths, signer |-> signer, listen_addr |-> listen_addr, ret |-> ret ]

\* configure that signs to check its signer, and gives up when that fails
ConfigureSigning(paths, signer, listen_addr) ==
    /\ ncalls < MaxCalls
    /\ ncalls' = ncalls + 1
    /\ signCalls' = signCalls + 1
    /\ lastSign' = IF signer.fails THEN "Err" ELSE "Ok"
    /\ calls' = calls \cup
         { CallRecord(paths, signer, listen_addr,
                      IF signer.fails THEN None
                      ELSE Some(configure(paths, signer, listen_addr))) }
    /\ UNCHANGED lazyVars
    /\ UNCHANGED discoveryVars

\* configure that derefs LOCALHOST_ANY on its way
ConfigureForcingLazy(paths, signer, listen_addr) ==
    /\ ncalls < MaxCalls
    /\ ncalls' = ncalls + 1
    /\ calls' = calls \cup
         { CallRecord(paths, signer, listen_addr, Some(configure(paths, signer, listen_addr))) }
    /\ lazyCell' = IF lazyCell = None THEN Some(LOCALHOST_ANY_init) ELSE lazyCell
    /\ UNCHANGED <<observed, signCalls, lastSign>>
    /\ UNCHANGED discoveryVars

\* a call of configure
Configure(paths, signer, listen_addr) ==
    /\ ncalls < MaxCalls
    /\ ncalls' = ncalls + 1
    /\ calls' = calls \cup
         { CallRecord(paths, signer, listen_addr, Some(configure(paths, signer, listen_addr))) }
    /\ UNCHANGED <<signCalls, lastSign>>
    /\ UNCHANGED lazyVars
    /\ UNCHANGED discoveryVars

----------------------------------------------------------------------------
(* LOCALHOST_ANY *)

\* a deref of the lazy static: the initialiser runs on the first one only
ReadLocalhostAny ==
    /\ Len(observed) < MaxReads
    /\ lazyCell' = IF lazyCell = None THEN Some(LOCALHOST_ANY_init) ELSE lazyCell
    /\ observed' = Append(observed, lazyCell'[1])
    /\ UNCHANGED configVars
    /\ UNCHANGED discoveryVars

----------------------------------------------------------------------------
(* The engine's use of the configured signer *)

\* the engine signs with the signer of a configuration it was given
EngineSign(c) ==
    /\ c \in calls
    /\ c.ret # None
    /\ signCalls < MaxSigns
    /\ signCalls' = signCalls + 1
    /\ lastSign' = IF c.ret[1].signer.fails THEN "Err" ELSE "Ok"
    /\ UNCHANGED <<calls, ncalls>>
    /\ UNCHANGED lazyVars
    /\ UNCHANGED discoveryVars

----------------------------------------------------------------------------
(* NoDiscovery *)

Instances == 1..MaxProviders
OtherTasks == {"membership", "replication"}

\* the slot a newly made instance takes
FreeSlot(i) ==
    /\ providers[i] = "absent"
    /\ \A j \in Instances : j < i => providers[j] # "absent"

\* the expression NoDiscovery: a new instance
NewNoDiscovery(i) ==
    /\ FreeSlot(i)
    /\ providers' = [providers EXCEPT ![i] = "owned"]
    /\ UNCHANGED <<cloneOf, streams, running, progress>>
    /\ UNCHANGED configVars
    /\ UNCHANGED lazyVars

\* #[derive(Clone)]: clone(&self) of instance i makes instance j
CloneNoDiscovery(i, j) ==
    /\ providers[i] = "owned"
    /\ FreeSlot(j)
    /\ providers' = [providers EXCEPT ![j] = "owned"]
    /\ cloneOf' = [cloneOf EXCEPT ![j] = i]
    /\ UNCHANGED <<streams, running, progress>>
    /\ UNCHANGED configVars
    /\ UNCHANGED lazyVars

\* Box::pin(futures::stream::pending()): a fresh stream, nothing yielded, not done
PendingStream ==
    [ state |-> "live", polls |-> 0, last |-> "none",
      yielded |-> 0, done |-> FALSE, woken |-> FALSE ]

\* discover taking &self: the instance stays usable
DiscoverByRef(i) ==
    /\ providers[i] = "owned"
    /\ Len(streams[i]) < 2
    /\ providers' = providers
    /\ streams' = [streams EXCEPT ![i] = Append(@, PendingStream)]
    /\ UNCHANGED <<cloneOf, running, progress>>
    /\ UNCHANGED configVars
    /\ UNCHANGED lazyVars

\* discover on a state shared by the clones: consuming one consumes them all
DiscoverShared(i) ==
    /\ providers[i] = "owned"
    /\ providers' = [j \in Instances |-> IF providers[j] = "owned" THEN "moved" ELSE providers[j]]
    /\ streams' = [streams EXCEPT ![i] = Append(@, PendingStream)]
    /\ UNCHANGED <<cloneOf, running, progress>>
    /\ UNCHANGED configVars
    /\ UNCHANGED lazyVars

\* discover(self): instance i is moved into the call, the caller receives the stream
Discover(i) ==
    /\ providers[i] = "owned"
    /\ providers' = [providers EXCEPT ![i] = "moved"]
    /\ streams' = [streams EXCEPT ![i] = Append(@, PendingStream)]
    /\ UNCHANGED <<cloneOf, running, progress>>
    /\ UNCHANGED configVars
    /\ UNCHANGED lazyVars

HasLiveStream(i) == Len(streams[i]) > 0 /\ streams[i][1].state = "live"

\* poll_next of stream::empty(): the stream is over
poll_next_empty(s) == [result |-> "Ready(None)", wake |-> FALSE]

\* poll_next of stream::pending(): Pending, the context's waker untouched
poll_next(s) == [result |-> "Pending", wake |-> FALSE]

\* the stream after one poll_next answered r
Polled(s, r) ==
    [ s EXCEPT !.polls = @ + 1,
               !.last = r.result,
               !.yielded = IF r.result = "Ready(Some)" THEN @ + 1 ELSE @,
               !.done = (@ \/ r.result = "Ready(None)"),
               !.woken = (@ \/ r.wake) ]

\* the worker starts polling stream i
BeginPoll(i) ==
    /\ running = 0
    /\ HasLiveStream(i)
    /\ streams[i][1].polls < MaxPolls
    /\ running' = i
    /\ UNCHANGED <<providers, cloneOf, streams, progress>>
    /\ UNCHANGED configVars
    /\ UNCHANGED lazyVars

\* a poll that does not return: the worker stays with the stream
PollBlocking(i) ==
    /\ running = i
    /\ streams[i][1].polls < MaxPolls
    /\ streams' = [streams EXCEPT ![i][1] = Polled(@, poll_next(@))]
    /\ running' = running
    /\ UNCHANGED <<providers, cloneOf, progress>>
    /\ UNCHANGED configVars
    /\ UNCHANGED lazyVars

\* the poll answers and the worker is free again
Poll(i) ==
    /\ running = i
    /\ streams' = [streams EXCEPT ![i][1] = Polled(@, poll_next(@))]
    /\ running' = 0
    /\ UNCHANGED <<providers, cloneOf, progress>>
    /\ UNCHANGED configVars
    /\ UNCHANGED lazyVars

\* the owner drops the stream
DropStream(i) ==
    /\ running # i
    /\ HasLiveStream(i)
    /\ streams' = [streams EXCEPT ![i][1].state = "dropped"]
    /\ UNCHANGED <<providers, cloneOf, running, progress>>
    /\ UNCHANGED configVars
    /\ UNCHANGED lazyVars

\* another task of the engine takes a step on the worker
TaskStep(t) ==
    /\ running = 0
    /\ progress' = [progress EXCEPT ![t] = 1 - @]
    /\ UNCHANGED <<providers, cloneOf, streams, running>>
    /\ UNCHANGED configVars
    /\ UNCHANGED lazyVars

----------------------------------------------------------------------------

Init ==
    /\ lazyCell = None
    /\ observed = << >>
    /\ calls = {}
    /\ ncalls = 0
    /\ signCalls = 0
    /\ lastSign = "none"
    /\ providers = [i \in Instances |-> "absent"]
    /\ cloneOf = [i \in Instances |-> 0]
    /\ streams = [i \in Instances |-> << >>]
    /\ running = 0
    /\ progress = [t \in OtherTasks |-> 0]

NextConfig ==
    \/ \E p \in PathsValues, s \in Signers, a \in ListenAddrs : Configure(p, s, a)
    \/ ReadLocalhostAny
    \/ \E c \in calls : EngineSign(c)

NextProviders ==
    \/ \E i \in Instances : NewNoDiscovery(i)
    \/ \E i, j \in Instances : CloneNoDiscovery(i, j)
    \/ \E i \in Instances : Discover(i)

NextEngine ==
    \/ \E i \in Instances : BeginPoll(i)
    \/ \E i \in Instances : Poll(i)
    \/ \E i \in Instances : DropStream(i)
    \/ \E t \in OtherTasks : TaskStep(t)

Next == NextConfig \/ NextProviders

NextDiscovery == NextProviders \/ NextEngine

\* configure, LOCALHOST_ANY and the signer, beside the making of providers
Spec == Init /\ [][Next]_vars

\* NoDiscovery and its streams, polled by the engine
DiscoverySpec == Init /\ [][NextDiscovery]_vars

\* the same under a fair worker: a poll in progress returns, and a task that is
\* ready again and again gets the worker
FairDiscoverySpec ==
    /\ Init /\ [][NextDiscovery]_vars
    /\ \A i \in Instances : WF_vars(Poll(i))
    /\ \A t \in OtherTasks : SF_vars(TaskStep(t))

----------------------------------------------------------------------------
(* Claims *)

StreamsOf(i) == { streams[i][k] : k \in 1..Len(streams[i]) }
AllStreams == UNION { StreamsOf(i) : i \in Instances }

\* C1: every configuration configure returned listens on exactly the address
\* it was given, advertises no address and denies every request_pull.
C1_ListenAddrExact ==
    \A c \in calls : \A k \in 1..Len(c.ret) :
        /\ c.ret[k].protocol.listen_addr = c.listen_addr
        /\ c.ret[k].protocol.advertised_addrs = << >>
        /\ c.ret[k].protocol.request_pull = "DenyAll"

C1_Witness ==
    /\ \E c \in calls : c.ret # << >> /\ c.listen_addr.port = 0
    /\ \E c \in calls : c.ret # << >> /\ c.listen_addr.port # 0 /\ c.listen_addr.family = "V6"

\* C2: a stream discover returned has, after any number of polls, yielded
\* nothing and not completed: every poll so far answered Pending.
C2_AlwaysPending ==
    \A s \in AllStreams :
        /\ s.yielded = 0
        /\ ~s.done
        /\ s.last = IF s.polls = 0 THEN "none" ELSE "Pending"

C2_Witness ==
    \E s \in AllStreams : s.polls >= 2 /\ s.last = "Pending" /\ s.state = "live"

C5_LocalhostAny ==
    LET expected == [family |-> "V4", ip |-> <<127, 0, 0, 1>>, port |-> 0]
    IN /\ \A k \in 1..Len(observed) : observed[k] = expected
       /\ \A k \in 1..Len(lazyCell) : lazyCell[k] = expected
       /\ Len(lazyCell) <= 1
       /\ (Len(observed) > 0 => lazyCell # << >>)

C5_Witness == Len(observed) >= 2 /\ observed[1] = observed[2]

\* C6: a step that is a call of configure invokes no signing operation and
\* leaves every call with a returned configuration, failing signer or not.
C6_NeverFailsNeverSigns ==
    [][ ncalls' # ncalls =>
          /\ signCalls' = signCalls
          /\ lastSign' = lastSign
          /\ \A c \in calls' : c.ret # << >> ]_vars

C6_Witness ==
    /\ \E c \in calls : c.signer.fails /\ c.ret # << >>
    /\ lastSign = "Err"
    /\ ncalls >= 2

\* C7: a step that is a call of configure changes nothing but the record of
\* calls, keeps the earlier records, and the configuration it returns carries
\* the paths and the signer it was given.
C7_PassThroughNoSideEffect ==
    [][ ncalls' # ncalls =>
          /\ UNCHANGED <<lazyCell, observed, signCalls, lastSign>>
          /\ UNCHANGED <<providers, cloneOf, streams, running, progress>>
          /\ calls \subseteq calls'
          /\ \A c \in calls' : \A k \in 1..Len(c.ret) :
                /\ c.ret[k].protocol.paths = c.paths
                /\ c.ret[k].signer = c.signer ]_vars

C7_Witness ==
    /\ \E c1, c2 \in calls : c1.paths # c2.paths /\ c1.signer # c2.signer
    /\ lazyCell = << >>
    /\ \E i \in Instances : providers[i] = "owned"
    /\ \E i \in Instances : providers[i] = "moved"

\* C8: membership, network, replication, rate limits and storage of every
\* returned configuration are the library's defaults, whatever the arguments.
C8_LibraryDefaults ==
    \A c \in calls : \A k \in 1..Len(c.ret) :
        /\ c.ret[k].protocol.membership = MembershipParamsDefault
        /\ c.ret[k].protocol.network = NetworkDefault
        /\ c.ret[k].protocol.replication = ReplicationConfigDefault
        /\ c.ret[k].protocol.rate_limits = QuotaDefault
        /\ c.ret[k].storage = StorageDefault

C8_Witness ==
    \E c1, c2 \in calls :
        /\ c1.ret # << >> /\ c2.ret # << >>
        /\ c1.paths # c2.paths
        /\ c1.signer # c2.signer
        /\ c1.listen_addr.family # c2.listen_addr.family

\* C9: no poll asks for a wake-up or answers anything but Pending, and under a
\* fair worker every other task of the engine steps again and again.
C9_PollNeverBlocks ==
    /\ [](\A s \in AllStreams : ~s.woken /\ s.last \in {"none", "Pending"})
    /\ \A t \in OtherTasks : []<><<TaskStep(t)>>_vars

C9_Witness ==
    /\ running = 0
    /\ \E s \in AllStreams : s.polls >= 2 /\ s.state = "live"
    /\ \A t \in OtherTasks : progress[t] = 1

\* C10: a step that consumes, polls or drops one instance's stream leaves
\* every other instance and every other stream as it was, and every stream
\* stays pending.
C10_ClonesIndependent ==
    [][ \A i \in Instances :
          (streams'[i] # streams[i] \/ (providers'[i] = "moved" /\ providers[i] # "moved")) =>
            /\ \A j \in Instances \ {i} :
                  providers'[j] = providers[j] /\ streams'[j] = streams[j]
            /\ \A k \in 1..Len(streams'[i]) :
                  streams'[i][k].yielded = 0 /\ ~streams'[i][k].done ]_vars

C10_Witness ==
    \E i, j \in Instances :
        /\ cloneOf[j] = i
        /\ providers[i] = "moved" /\ streams[i][1].state = "dropped"
        /\ providers[j] = "moved" /\ streams[j][1].state = "live"
        /\ streams[j][1].polls >= 1

====
